---- MODULE Spec2Model ----
(***************************************************************************)
(* Model of the Venn deduction puzzle (src/src/main.rs): puzzle loading,   *)
(* the geometry and matching predicates, and the per-tick handler          *)
(* Venn::interact.                                                         *)
(*                                                                         *)
(* Numbers.  Every coordinate the model uses is an integer below 2^24, so  *)
(* the f32 arithmetic of the program is exact on them.  nalgebra::distance *)
(* is sqrt(dx*dx + dy*dy); for integers n and r in this range the rounded  *)
(* f32 square root of n is below r exactly when n < r*r, which is the      *)
(* comparison the model makes.                                             *)
(*                                                                         *)
(* Option<usize> and Option<bool> are modelled with the value None for     *)
(* None; Some(i) is the index i itself and Some(b) is the string Some(b).  *)
(***************************************************************************)
EXTENDS Integers, Sequences, FiniteSets, TLC

VARIABLES input, left, right, shapes, drag_index, rng, ticks, probe

vars == <<input, left, right, shapes, drag_index, rng, ticks, probe>>

\* Number of ticks of the game loop that are explored.
MaxTicks == 4

WIDTH == 800
HEIGHT == 600

None == "None"
NoIndex == -1

Some(b) == IF b THEN "Some(true)" ELSE "Some(false)"

Point_new(x, y) == [x |-> x, y |-> y]

(***************************************************************************)
(* Attribute domain                                                        *)
(***************************************************************************)
VennColor_all == <<"Yellow", "Blue", "Purple">>
VennSize_all == <<"Small", "Medium", "Large">>
VennShape_all == <<"Circle", "Square", "Triangle">>

Range(s) == {s[k] : k \in DOMAIN s}

VennTarget == [shape : Range(VennShape_all), size : Range(VennSize_all),
               color : Range(VennColor_all)]

\* rng.gen_range(low, high) of rand 0.7: the half-open range [low, high).
gen_range(low, high) == low .. (high - 1)

\* The values the three random() functions can receive from the generator.
RandomDraw == gen_range(0, 2)

VennColor_random(n) ==
    CASE n = 0 -> "Yellow"
      [] n = 1 -> "Blue"
      [] n = 2 -> "Purple"
      [] OTHER -> "panic"

VennSize_random(n) ==
    CASE n = 0 -> "Small"
      [] n = 1 -> "Medium"
      [] n = 2 -> "Large"
      [] OTHER -> "panic"

VennShape_random(n) ==
    CASE n = 0 -> "Circle"
      [] n = 1 -> "Square"
      [] n = 2 -> "Triangle"
      [] OTHER -> "panic"

(***************************************************************************)
(* Geometry                                                                *)
(***************************************************************************)
DistSq(p, q) == (p.x - q.x) * (p.x - q.x) + (p.y - q.y) * (p.y - q.y)

\* nalgebra::distance(p, q) < r
DistanceLess_closed(p, q, r) == DistSq(p, q) <= r * r
DistanceLess(p, q, r) == DistSq(p, q) < r * r

VennAnswer_contains_closed(a, point) ==
    /\ point.x >= a.center.x - a.width \div 2
    /\ point.x <= a.center.x + a.width \div 2
    /\ point.y >= a.center.y - a.height \div 2
    /\ point.y <= a.center.y + a.height \div 2
VennAnswer_contains_full_extent(a, point) ==
    /\ point.x > a.center.x - a.width
    /\ point.x < a.center.x + a.width
    /\ point.y > a.center.y - a.height
    /\ point.y < a.center.y + a.height
VennAnswer_contains(a, point) ==
    /\ point.x > a.center.x - a.width \div 2
    /\ point.x < a.center.x + a.width \div 2
    /\ point.y > a.center.y - a.height \div 2
    /\ point.y < a.center.y + a.height \div 2

VennGuess_contains(g, point) == DistanceLess(point, g.center, g.radius)

VennCircle_contains(c, point) == DistanceLess(point, c.center, c.radius)

(***************************************************************************)
(* Matching                                                                *)
(***************************************************************************)
\* shape == shape || size-line commented out && color == color:
\* with the middle line a comment the condition is shape && color.
VennAnswer_matches_or(a, target) ==
    \/ a.target.shape = target.shape
    \/ a.target.color = target.color
VennAnswer_matches(a, target) ==
    /\ a.target.shape = target.shape
    /\ a.target.color = target.color

\* The circle has no target field; it reads the target of its answer.
VennCircle_matches_size(c, target) ==
    \/ c.answer.target.shape = target.shape
    \/ c.answer.target.size = target.size
    \/ c.answer.target.color = target.color
VennCircle_matches(c, target) ==
    \/ c.answer.target.shape = target.shape
    \/ c.answer.target.color = target.color

(***************************************************************************)
(* Tokens                                                                  *)
(***************************************************************************)
VennGuess_new_from_zero(i, shape, color, size) ==
    [center |-> Point_new(20, i * 40),
     radius |-> 30,
     dragged |-> FALSE,
     target |-> [shape |-> shape, size |-> size, color |-> color],
     matches |-> None]
VennGuess_new(i, shape, color, size) ==
    [center |-> Point_new(20, (i + 1) * 40),
     radius |-> 30,
     dragged |-> FALSE,
     target |-> [shape |-> shape, size |-> size, color |-> color],
     matches |-> None]

VennGuess_drag_to(g, point) == [g EXCEPT !.dragged = TRUE, !.center = point]

VennCircle_interact_sticky(c, in) ==
    [c EXCEPT !.selected = @ \/ VennCircle_contains(c, in.cursor_position)]
VennCircle_interact(c, in) ==
    [c EXCEPT !.selected = VennCircle_contains(c, in.cursor_position)]

(***************************************************************************)
(* Venn::load                                                              *)
(***************************************************************************)
x_margin == 10
y_margin == 10
remaining_x == WIDTH - x_margin * 2
remaining_y == HEIGHT - y_margin * 2

left_center == Point_new(x_margin + remaining_x \div 3, y_margin + remaining_y \div 2)
left_answer_center_on_top == [left_center EXCEPT !.y = left_center.y - 200]
left_answer_center == [left_center EXCEPT !.y = left_center.y - 200 - 40 - 15]
right_center == Point_new(WIDTH - x_margin - remaining_x \div 3,
                          HEIGHT - y_margin - remaining_y \div 2)
right_answer_center == [right_center EXCEPT !.y = right_center.y - 200 - 40 - 15]

\* The tray: for shape in VennShape::all(), for color in VennColor::all(),
\* token number i = 3 * (shape position) + (color position), size Small.
load_shapes ==
    [i \in 0 .. (Len(VennShape_all) * Len(VennColor_all) - 1) |->
        VennGuess_new(i, VennShape_all[(i \div Len(VennColor_all)) + 1],
                      VennColor_all[(i % Len(VennColor_all)) + 1], "Small")]

\* d is the sequence of values the generator returns, in the order the
\* struct literal evaluates its fields: shape, size, color.
load_circle(center, answer_center, d) ==
    [center |-> center,
     radius |-> 200,
     selected |-> FALSE,
     answer |-> [center |-> answer_center,
                 width |-> 100,
                 height |-> 80,
                 hover |-> FALSE,
                 target |-> [shape |-> VennShape_random(d[1]),
                             size |-> VennSize_random(d[2]),
                             color |-> VennColor_random(d[3])]]]

load(d) ==
    [left |-> load_circle(left_center, left_answer_center, SubSeq(d, 1, 3)),
     right |-> load_circle(right_center, right_answer_center, SubSeq(d, 4, 6)),
     shapes |-> load_shapes,
     drag_index |-> NoIndex]

VennInput_new == [cursor_position |-> Point_new(0, 0), is_mouse_pressed |-> FALSE]

(***************************************************************************)
(* Venn::interact                                                          *)
(***************************************************************************)
Max(S) == CHOOSE m \in S : \A k \in S : k <= m
Min(S) == CHOOSE m \in S : \A k \in S : m <= k

\* The tokens whose circle contains the point.
hits(tray, point) == {i \in DOMAIN tray : VennGuess_contains(tray[i], point)}

\* for (i, shape) in shapes.iter_mut().enumerate().rev() ... break:
\* the first hit of the reversed iteration is the highest index.
first_hit_forward(tray, point) == Min(hits(tray, point))
first_hit_one_based(tray, point) == Max(hits(tray, point)) + 1
first_hit(tray, point) == Max(hits(tray, point))

\* drag_index = None, button down.
press_idle_keep_verdict(self, point) ==
    IF hits(self.shapes, point) = {}
    THEN self
    ELSE LET i == first_hit(self.shapes, point) IN
         [self EXCEPT !.shapes[i] = VennGuess_drag_to(@, point),
                      !.drag_index = i]
press_idle_no_break(self, point) ==
    IF hits(self.shapes, point) = {}
    THEN self
    ELSE [self EXCEPT
            !.shapes = [i \in DOMAIN self.shapes |->
                          IF i \in hits(self.shapes, point)
                          THEN VennGuess_drag_to([self.shapes[i] EXCEPT !.matches = None], point)
                          ELSE self.shapes[i]],
            !.drag_index = first_hit(self.shapes, point)]
press_idle(self, point) ==
    IF hits(self.shapes, point) = {}
    THEN self
    ELSE LET i == first_hit(self.shapes, point) IN
         [self EXCEPT !.shapes[i] = VennGuess_drag_to([@ EXCEPT !.matches = None], point),
                      !.drag_index = i]

\* drag_index = Some(index), button down.
press_dragging_rehit(self, point) ==
    IF hits(self.shapes, point) = {}
    THEN [self EXCEPT !.shapes[self.drag_index] = VennGuess_drag_to(@, point)]
    ELSE LET i == first_hit(self.shapes, point) IN
         [self EXCEPT !.shapes[self.drag_index].dragged = FALSE,
                      !.shapes[i] = VennGuess_drag_to(@, point),
                      !.drag_index = i]
press_dragging(self, point) ==
    [self EXCEPT !.shapes[self.drag_index] = VennGuess_drag_to(@, point)]

interact_pressed(self, in) ==
    LET point == in.cursor_position
        s == IF self.drag_index = NoIndex
             THEN press_idle(self, point)
             ELSE press_dragging(self, point)
    IN  IF s.drag_index # NoIndex
        THEN [s EXCEPT !.left.answer.hover = VennAnswer_contains(s.left.answer, point),
                       !.right.answer.hover = VennAnswer_contains(s.right.answer, point)]
        ELSE s

\* The arms of the release match, applied to the released token.
arm_both_or(self, shape) ==
    [shape EXCEPT !.matches = Some(VennCircle_matches(self.left, shape.target)
                                   \/ VennCircle_matches(self.right, shape.target))]
arm_both(self, shape) ==
    [shape EXCEPT !.matches = Some(VennCircle_matches(self.left, shape.target)
                                   /\ VennCircle_matches(self.right, shape.target))]

arm_left_reads_right(self, shape) ==
    [shape EXCEPT !.matches = Some(VennCircle_matches(self.right, shape.target))]
arm_left(self, shape) ==
    [shape EXCEPT !.matches = Some(VennCircle_matches(self.left, shape.target))]

arm_right(self, shape) ==
    [shape EXCEPT !.matches = Some(VennCircle_matches(self.right, shape.target))]

arm_left_answer_no_snap(self, shape) ==
    [shape EXCEPT !.matches = Some(VennAnswer_matches(self.left.answer, shape.target))]
arm_left_answer(self, shape) ==
    [shape EXCEPT !.matches = Some(VennAnswer_matches(self.left.answer, shape.target)),
                  !.center = self.left.answer.center]

arm_right_answer(self, shape) ==
    [shape EXCEPT !.matches = Some(VennAnswer_matches(self.right.answer, shape.target)),
                  !.center = self.right.answer.center]

arm_none_mismatch(self, shape) == [shape EXCEPT !.matches = Some(FALSE)]
arm_none(self, shape) == [shape EXCEPT !.matches = None]

\* match (left.contains, right.contains, left.answer.contains, right.answer.contains)
evaluate(self, shape) ==
    LET inL == VennCircle_contains(self.left, shape.center)
        inR == VennCircle_contains(self.right, shape.center)
        inLA == VennAnswer_contains(self.left.answer, shape.center)
        inRA == VennAnswer_contains(self.right.answer, shape.center)
    IN  CASE inL /\ inR -> arm_both(self, shape)
          [] inL /\ ~inR -> arm_left(self, shape)
          [] ~inL /\ inR -> arm_right(self, shape)
          [] ~inL /\ ~inR /\ inLA /\ ~inRA -> arm_left_answer(self, shape)
          [] ~inL /\ ~inR /\ ~inLA /\ inRA -> arm_right_answer(self, shape)
          [] OTHER -> arm_none(self, shape)

release_keep_dragged(self) ==
    LET index == self.drag_index IN
    [self EXCEPT !.shapes[index] = evaluate(self, @),
                 !.drag_index = NoIndex]
release(self) ==
    LET index == self.drag_index IN
    [self EXCEPT !.shapes[index] = [evaluate(self, @) EXCEPT !.dragged = FALSE],
                 !.drag_index = NoIndex]

interact_released_keep_hover(self) ==
    IF self.drag_index # NoIndex THEN release(self) ELSE self
interact_released(self) ==
    LET s == [self EXCEPT !.left.answer.hover = FALSE,
                          !.right.answer.hover = FALSE]
    IN  IF s.drag_index # NoIndex THEN release(s) ELSE s

interact(self, in) ==
    LET s == [self EXCEPT !.left = VennCircle_interact(@, in),
                          !.right = VennCircle_interact(@, in)]
    IN  IF in.is_mouse_pressed
        THEN interact_pressed(s, in)
        ELSE interact_released(s)

(***************************************************************************)
(* The state machine                                                       *)
(***************************************************************************)
\* Pointer positions of the input snapshots.  The tray points pick up a
\* token: (20, 20) lies in token 0 only, (20, 60) in tokens 0 and 1, and
\* (20, 340) in tokens 7 and 8.  TokenEdgePoint is on the boundary of token
\* 0.  Then a point inside both regions, the left only, the right only, each
\* answer slot and nothing; a point on the left region's circle and a point
\* on the left edge of the left slot.
TrayPoints == {Point_new(20, 20), Point_new(20, 60), Point_new(20, 340)}
TokenEdgePoint == Point_new(50, 40)
BothPoint == Point_new(400, 300)
LeftPoint == Point_new(200, 300)
RightPoint == Point_new(600, 300)
LeftAnswerPoint == Point_new(250, 30)
RightAnswerPoint == Point_new(550, 60)
NowherePoint == Point_new(400, 550)
CircleEdgePoint == Point_new(70, 300)
AnswerEdgePoint == Point_new(220, 45)

Points == TrayPoints \cup {TokenEdgePoint, BothPoint, LeftPoint, RightPoint,
                           LeftAnswerPoint, RightAnswerPoint, NowherePoint,
                           CircleEdgePoint, AnswerEdgePoint}

Self == [left |-> left, right |-> right, shapes |-> shapes, drag_index |-> drag_index]

Init ==
    \E d \in [1 .. 6 -> RandomDraw] :
        /\ rng = d
        /\ input = VennInput_new
        /\ left = load(d).left
        /\ right = load(d).right
        /\ shapes = load(d).shapes
        /\ drag_index = load(d).drag_index
        /\ ticks = 0
        /\ probe = None

\* One tick of the game loop: the input snapshot of the tick, then interact.
Tick ==
    /\ ticks < MaxTicks
    /\ \E point \in Points, pressed \in BOOLEAN :
         \E s \in {interact(Self, [cursor_position |-> point,
                                    is_mouse_pressed |-> pressed])} :
             /\ input' = [cursor_position |-> point, is_mouse_pressed |-> pressed]
             /\ left' = s.left
             /\ right' = s.right
             /\ shapes' = s.shapes
             /\ drag_index' = s.drag_index
    /\ ticks' = ticks + 1
    /\ UNCHANGED <<rng, probe>>

Next == Tick

Spec == Init /\ [][Next]_vars

(***************************************************************************)
(* The pure predicates on their own: probe holds the arguments of one      *)
(* call, drawn from the whole attribute domain and from a grid of points   *)
(* (every tenth coordinate of the window and the coordinates next to the   *)
(* zones' boundaries), and then the results of the call.                   *)
(***************************************************************************)
ProbeXs == {10 * k : k \in 0 .. (WIDTH \div 10)}
             \cup {38, 44, 71, 221, 319, 469, 481, 579, 729}
ProbeYs == {10 * k : k \in 0 .. (HEIGHT \div 10)}
             \cup {5, 6, 16, 45, 64, 84, 85, 99, 101, 499}
ProbePoints == {Point_new(x, y) : x \in ProbeXs, y \in ProbeYs}

\* A result is None until the call is made and Some(b) afterwards.
MatchProbes == [kind : {"matches"}, zone : VennTarget, target : VennTarget,
                result : {[circle |-> None, answer |-> None]}]
ContainsProbes == [kind : {"contains"}, point : ProbePoints,
                   result : {[circle |-> None, answer |-> None, guess |-> None,
                              right_circle |-> None, right_answer |-> None]}]

PureInit ==
    /\ rng = [i \in 1 .. 6 |-> 0]
    /\ input = VennInput_new
    /\ left = load(rng).left
    /\ right = load(rng).right
    /\ shapes = load(rng).shapes
    /\ drag_index = load(rng).drag_index
    /\ ticks = 0
    /\ probe \in MatchProbes \cup ContainsProbes

\* VennCircle::matches and VennAnswer::matches of a zone holding probe.zone.
ApplyMatches ==
    /\ probe.kind = "matches"
    /\ probe.result.circle = None
    /\ probe' = [probe EXCEPT !.result =
          [circle |-> Some(VennCircle_matches([left EXCEPT !.answer.target = probe.zone],
                                              probe.target)),
           answer |-> Some(VennAnswer_matches([left.answer EXCEPT !.target = probe.zone],
                                              probe.target))]]
    /\ UNCHANGED <<input, left, right, shapes, drag_index, rng, ticks>>

\* The three contains functions on the loaded regions, their slots and token 0.
ApplyContains ==
    /\ probe.kind = "contains"
    /\ probe.result.circle = None
    /\ probe' = [probe EXCEPT !.result =
          [circle |-> Some(VennCircle_contains(left, probe.point)),
           answer |-> Some(VennAnswer_contains(left.answer, probe.point)),
           guess |-> Some(VennGuess_contains(shapes[0], probe.point)),
           right_circle |-> Some(VennCircle_contains(right, probe.point)),
           right_answer |-> Some(VennAnswer_contains(right.answer, probe.point))]]
    /\ UNCHANGED <<input, left, right, shapes, drag_index, rng, ticks>>

PureNext == ApplyMatches \/ ApplyContains

PureSpec == PureInit /\ [][PureNext]_vars

(***************************************************************************)
(* Properties                                                              *)
(***************************************************************************)
Tokens == DOMAIN shapes
DraggedTokens == {i \in Tokens : shapes[i].dragged}

\* The tick begins a drag on token i, continues it, or releases it.
Begins(i) == drag_index = NoIndex /\ drag_index' = i
Continues(i) == drag_index = i /\ drag_index' = i
Releases(i) == drag_index = i /\ drag_index' = NoIndex

\* Zone memberships of a point in the current scene.
InLeft(point) == VennCircle_contains(left, point)
InRight(point) == VennCircle_contains(right, point)
InLeftAnswer(point) == VennAnswer_contains(left.answer, point)
InRightAnswer(point) == VennAnswer_contains(right.answer, point)

\* The rule of the specification: the shapes agree or the colors agree.
ShapeOrColor(zone_target, target) ==
    zone_target.shape = target.shape \/ zone_target.color = target.color
ShapeAndColor(zone_target, target) ==
    zone_target.shape = target.shape /\ zone_target.color = target.color

\* C1: after every tick the number of dragged tokens is 0 or 1, it is 1
\* exactly when drag_index is set, and the dragged token is the one at
\* drag_index.
C1_SingleDraggedToken ==
    /\ Cardinality(DraggedTokens) \in {0, 1}
    /\ (Cardinality(DraggedTokens) = 1) <=> (drag_index # NoIndex)
    /\ drag_index # NoIndex => DraggedTokens = {drag_index}

\* A drag is active on token 1, picked up at a point that tokens 0 and 1
\* both contained.
C1_Witness ==
    /\ drag_index = 1
    /\ shapes[1].dragged
    /\ shapes[1].center = Point_new(20, 60)
    /\ VennGuess_contains(shapes[0], shapes[1].center)
    /\ ~shapes[0].dragged

\* C2: the verdict of a token becomes Unset on the tick a drag on it begins,
\* is Unset before and after every tick that continues the drag, and changes
\* on no tick other than the one that begins a drag on the token and the one
\* that releases it.
C2_VerdictOnlyAtRelease ==
    [][\A i \in Tokens :
          /\ Begins(i) => shapes'[i].matches = None
          /\ Continues(i) => shapes[i].matches = None /\ shapes'[i].matches = None
          /\ shapes'[i].matches # shapes[i].matches => Begins(i) \/ Releases(i)]_vars

\* A token was dragged into a zone and released with a verdict, and a later
\* tick with the button up has left it in place.
C2_Witness ==
    \E i \in Tokens :
        /\ drag_index = NoIndex
        /\ ~shapes[i].dragged
        /\ shapes[i].matches # None
        /\ ticks >= 4
        /\ ~input.is_mouse_pressed

\* C3: a release with the token center inside at least one region decides
\* the verdict by regions only and leaves the center where it is: inside both
\* regions Match iff both regions match, inside the left only the left
\* region's match, inside the right only the right region's match.
C3_RegionVerdict ==
    [][\A i \in Tokens :
          LET c == shapes[i].center
              t == shapes[i].target
              l == ShapeOrColor(left.answer.target, t)
              r == ShapeOrColor(right.answer.target, t)
          IN  Releases(i) /\ (InLeft(c) \/ InRight(c)) =>
                /\ shapes'[i].center = c
                /\ InLeft(c) /\ InRight(c) => shapes'[i].matches = Some(l /\ r)
                /\ InLeft(c) /\ ~InRight(c) => shapes'[i].matches = Some(l)
                /\ ~InLeft(c) /\ InRight(c) => shapes'[i].matches = Some(r)]_vars

\* Token 1 (Circle, Blue) released inside both regions, the left target
\* Square and Blue, the right one Circle and Yellow: Match through the color
\* on the left and through the shape on the right.
C3_Witness ==
    /\ drag_index = NoIndex
    /\ shapes[1].center = BothPoint
    /\ ~shapes[1].dragged
    /\ left.answer.target.shape = "Square" /\ left.answer.target.color = "Blue"
    /\ right.answer.target.shape = "Circle" /\ right.answer.target.color = "Yellow"
    /\ shapes[1].matches = Some(TRUE)

\* C4: a release with the token center outside both regions and not inside
\* exactly one answer slot gives the verdict Unset and leaves the center
\* where it is.
C4_NoZoneUnset ==
    [][\A i \in Tokens :
          LET c == shapes[i].center IN
          ( /\ Releases(i)
            /\ ~InLeft(c) /\ ~InRight(c)
            /\ InLeftAnswer(c) = InRightAnswer(c) ) =>
                /\ shapes'[i].matches = None
                /\ shapes'[i].center = c]_vars

\* Token 0 was dragged outside every zone and released there.
C4_Witness ==
    /\ drag_index = NoIndex
    /\ shapes[0].center = NowherePoint
    /\ ~shapes[0].dragged
    /\ shapes[0].matches = None
    /\ ~input.is_mouse_pressed

\* C5: a release with the token center inside neither region and inside
\* exactly one answer slot gives that slot's match result for the token's
\* target and moves the center to that slot's center.
C5_SlotVerdictAndSnap ==
    [][\A i \in Tokens :
          LET c == shapes[i].center
              t == shapes[i].target
          IN  Releases(i) /\ ~InLeft(c) /\ ~InRight(c) =>
                /\ InLeftAnswer(c) /\ ~InRightAnswer(c) =>
                     /\ shapes'[i].matches = Some(VennAnswer_matches(left.answer, t))
                     /\ shapes'[i].center = left.answer.center
                /\ ~InLeftAnswer(c) /\ InRightAnswer(c) =>
                     /\ shapes'[i].matches = Some(VennAnswer_matches(right.answer, t))
                     /\ shapes'[i].center = right.answer.center]_vars

\* Token 0 lies on the center of the right slot, where no pointer position
\* of the model is, with the right slot's result and not the left slot's.
C5_Witness ==
    /\ drag_index = NoIndex
    /\ shapes[0].center = right.answer.center
    /\ ~shapes[0].dragged
    /\ shapes[0].matches = Some(VennAnswer_matches(right.answer, shapes[0].target))
    /\ VennAnswer_matches(right.answer, shapes[0].target)
         # VennAnswer_matches(left.answer, shapes[0].target)

\* C6: VennCircle::matches is true iff the shapes are equal or the colors
\* are equal, for every region target and token target of the 3x3x3 domain,
\* and the result is the same for every size of the token target.
C6_RegionMatchesShapeOrColor ==
    (probe.kind = "matches" /\ probe.result.circle # None) =>
        /\ probe.result.circle = Some(ShapeOrColor(probe.zone, probe.target))
        /\ \A size \in Range(VennSize_all) :
             Some(VennCircle_matches([left EXCEPT !.answer.target = probe.zone],
                                     [probe.target EXCEPT !.size = size]))
               = probe.result.circle

\* Region target Circle, Blue, Large; token target Circle, Purple, Small:
\* a match through the shape, the sizes and the colors being different.
C6_Witness ==
    /\ probe.kind = "matches"
    /\ probe.zone = [shape |-> "Circle", size |-> "Large", color |-> "Blue"]
    /\ probe.target = [shape |-> "Circle", size |-> "Small", color |-> "Purple"]
    /\ probe.result.circle = Some(TRUE)

\* C7 as stated: a token released inside exactly one answer slot and no
\* region gets the verdict Match iff its shape or its color equals the
\* slot target's.
C7_SlotShapeOrColor ==
    [][\A i \in Tokens :
          LET c == shapes[i].center
              t == shapes[i].target
          IN  Releases(i) /\ ~InLeft(c) /\ ~InRight(c) =>
                /\ InLeftAnswer(c) /\ ~InRightAnswer(c) =>
                     shapes'[i].matches = Some(ShapeOrColor(left.answer.target, t))
                /\ ~InLeftAnswer(c) /\ InRightAnswer(c) =>
                     shapes'[i].matches = Some(ShapeOrColor(right.answer.target, t))]_vars

\* C7 as amended: a token released inside exactly one answer slot and no
\* region gets the verdict Match iff its shape and its color both equal the
\* slot target's; with the same shape and another color it is Mismatch.
C7_SlotShapeAndColor ==
    [][\A i \in Tokens :
          LET c == shapes[i].center
              t == shapes[i].target
          IN  Releases(i) /\ ~InLeft(c) /\ ~InRight(c) =>
                /\ InLeftAnswer(c) /\ ~InRightAnswer(c) =>
                     /\ shapes'[i].matches = Some(ShapeAndColor(left.answer.target, t))
                     /\ (left.answer.target.shape = t.shape
                           /\ left.answer.target.color # t.color)
                          => shapes'[i].matches = Some(FALSE)
                /\ ~InLeftAnswer(c) /\ InRightAnswer(c) =>
                     /\ shapes'[i].matches = Some(ShapeAndColor(right.answer.target, t))
                     /\ (right.answer.target.shape = t.shape
                           /\ right.answer.target.color # t.color)
                          => shapes'[i].matches = Some(FALSE)]_vars

\* Token 0 (Circle, Yellow) was released inside the left slot, whose target
\* is Circle and Blue, and lies on the slot's center with verdict Mismatch.
C7_Witness ==
    /\ drag_index = NoIndex
    /\ shapes[0].center = left.answer.center
    /\ ~shapes[0].dragged
    /\ left.answer.target.shape = "Circle" /\ left.answer.target.color = "Blue"
    /\ shapes[0].matches = Some(FALSE)

\* Points at distance exactly radius from a center: radius is a multiple of
\* 5 for the regions and the tokens, so (3r/5, 4r/5) is on the circle.
CircleBoundary(center, radius) ==
    LET a == (3 * radius) \div 5
        b == (4 * radius) \div 5
    IN  {Point_new(center.x + d[1], center.y + d[2]) :
            d \in {<<radius, 0>>, <<-radius, 0>>, <<0, radius>>, <<0, -radius>>,
                   <<a, b>>, <<a, -b>>, <<-a, b>>, <<-a, -b>>,
                   <<b, a>>, <<b, -a>>, <<-b, a>>, <<-b, -a>>}}

\* Points on the four edges of a slot: the corners, the middles and the
\* points next to the corners.
RectBoundary(a) ==
    LET x0 == a.center.x - a.width \div 2
        x1 == a.center.x + a.width \div 2
        y0 == a.center.y - a.height \div 2
        y1 == a.center.y + a.height \div 2
    IN  {Point_new(x, y) : x \in {x0, x1}, y \in {y0, y0 + 1, a.center.y, y1 - 1, y1}}
        \cup {Point_new(x, y) : x \in {x0, x0 + 1, a.center.x, x1 - 1, x1}, y \in {y0, y1}}

OnCircle(center, radius, point) == DistSq(point, center) = radius * radius

OnRect(a, point) ==
    LET x0 == a.center.x - a.width \div 2
        x1 == a.center.x + a.width \div 2
        y0 == a.center.y - a.height \div 2
        y1 == a.center.y + a.height \div 2
    IN  \/ point.x \in {x0, x1} /\ point.y >= y0 /\ point.y <= y1
        \/ point.y \in {y0, y1} /\ point.x >= x0 /\ point.x <= x1

\* A pointer on the boundary of a token does not pick that token up: on a
\* tick that begins a drag no token contains a point of its own boundary,
\* the token picked up is not one whose boundary the pointer is on, and no
\* drag begins when the pointer is on a boundary and strictly inside no
\* token.
C8_EdgeDoesNotPickUp ==
    (drag_index = NoIndex /\ drag_index' # NoIndex) =>
        LET point == input'.cursor_position IN
        /\ \A k \in Tokens :
             \A on \in CircleBoundary(shapes[k].center, shapes[k].radius) :
                 ~VennGuess_contains(shapes[k], on)
        /\ ~OnCircle(shapes[drag_index'].center, shapes[drag_index'].radius, point)
        /\ ~( /\ \E k \in Tokens : OnCircle(shapes[k].center, shapes[k].radius, point)
              /\ \A k \in Tokens : DistSq(point, shapes[k].center)
                                      >= shapes[k].radius * shapes[k].radius )

\* On a release tick no region contains a point of its circle and no slot a
\* point of its edges, and a token released on the boundary of a zone, and
\* inside no other zone, is classified as outside everything.
C8_EdgeReleaseIsOutside ==
    (drag_index # NoIndex /\ drag_index' = NoIndex) =>
        LET i == drag_index
            c == shapes[i].center
        IN  /\ \A z \in {left, right} :
                 /\ \A on \in CircleBoundary(z.center, z.radius) :
                        ~VennCircle_contains(z, on)
                 /\ \A on \in RectBoundary(z.answer) :
                        ~VennAnswer_contains(z.answer, on)
            /\ ( \/ OnCircle(left.center, left.radius, c) /\ ~InRight(c)
                 \/ OnCircle(right.center, right.radius, c) /\ ~InLeft(c)
                 \/ OnRect(left.answer, c)
                 \/ OnRect(right.answer, c) )
                 => shapes'[i].matches = None /\ shapes'[i].center = c

\* C8: a point at distance exactly radius from the center of a region or of
\* a token is not contained by it, and a point on an edge of a slot is not
\* contained by the slot; a pointer on a token's boundary does not pick the
\* token up, and a token released with its center on the boundary of a zone
\* (and inside no other zone) gets the verdict Unset and is not moved.
C8_StrictContainment == [][C8_EdgeDoesNotPickUp /\ C8_EdgeReleaseIsOutside]_vars

\* Token 0 was released on the left region's circle or on the left edge of
\* the left slot and has no verdict.
C8_Witness ==
    /\ drag_index = NoIndex
    /\ shapes[0].center \in {CircleEdgePoint, AnswerEdgePoint}
    /\ OnCircle(left.center, left.radius, shapes[0].center)
         \/ OnRect(left.answer, shapes[0].center)
    /\ ~shapes[0].dragged
    /\ shapes[0].matches = None
    /\ ~input.is_mouse_pressed

\* C9: every pair of the 27 targets can be generated as (left, right), so
\* every shape, color and size occurs in a generated target.
C9_EveryTargetPairGenerated ==
    \A l \in VennTarget, r \in VennTarget :
        \E d \in [DOMAIN rng -> RandomDraw] :
            /\ load(d).left.answer.target = l
            /\ load(d).right.answer.target = r

\* The verdict that interact gives token i in the scene self on the tick in.
VerdictAfter(self, in, i) == interact(self, in).shapes[i].matches

\* C10 as stated: the verdict of a release inside a region is the same in
\* every puzzle that differs from this one only in the target of a slot.
C10_RegionVerdictIgnoresSlotTarget ==
    [][\A i \in Tokens :
          LET c == shapes[i].center IN
          Releases(i) /\ (InLeft(c) \/ InRight(c)) =>
              \A z \in VennTarget :
                  /\ VerdictAfter([Self EXCEPT !.left.answer.target = z], input', i)
                       = shapes'[i].matches
                  /\ VerdictAfter([Self EXCEPT !.right.answer.target = z], input', i)
                       = shapes'[i].matches]_vars

\* C10 as amended: a region reads the target of its own slot, and only that:
\* the verdict of a release inside one region only is the region rule on the
\* target held by that region's slot, and is the same in every puzzle that
\* differs from this one only in the other region's slot target.
C10_RegionVerdictReadsOwnSlotTarget ==
    [][\A i \in Tokens :
          LET c == shapes[i].center
              t == shapes[i].target
          IN  /\ (Releases(i) /\ InLeft(c) /\ ~InRight(c)) =>
                   \A z \in VennTarget :
                       /\ VerdictAfter([Self EXCEPT !.right.answer.target = z], input', i)
                            = shapes'[i].matches
                       /\ VerdictAfter([Self EXCEPT !.left.answer.target = z], input', i)
                            = Some(ShapeOrColor(z, t))
              /\ (Releases(i) /\ ~InLeft(c) /\ InRight(c)) =>
                   \A z \in VennTarget :
                       /\ VerdictAfter([Self EXCEPT !.left.answer.target = z], input', i)
                            = shapes'[i].matches
                       /\ VerdictAfter([Self EXCEPT !.right.answer.target = z], input', i)
                            = Some(ShapeOrColor(z, t))]_vars

\* Token 0 (Circle, Yellow) was released inside the left region only and is
\* a Match there although it matches neither attribute of the right target.
C10_Witness ==
    /\ drag_index = NoIndex
    /\ shapes[0].center = LeftPoint
    /\ ~shapes[0].dragged
    /\ shapes[0].matches = Some(TRUE)
    /\ ~ShapeOrColor(right.answer.target, shapes[0].target)

\* C12: on every tick with drag_index unset and the button down, whatever
\* the button was on the tick before, the token picked up is the one of
\* highest index whose circle contains the pointer: its verdict becomes
\* Unset, dragged true, its center the pointer and drag_index its index, and
\* no other token changes; when no token contains the pointer drag_index
\* stays unset and no token changes.
C12_PickUpHighestIndex ==
    [][(drag_index = NoIndex /\ input'.is_mouse_pressed) =>
          LET point == input'.cursor_position
              under == {i \in Tokens :
                          DistSq(point, shapes[i].center)
                            < shapes[i].radius * shapes[i].radius}
          IN  IF under = {}
              THEN drag_index' = NoIndex /\ shapes' = shapes
              ELSE /\ drag_index' \in under
                   /\ \A k \in under : k <= drag_index'
                   /\ shapes' = [shapes EXCEPT![drag_index'] =
                                   [@ EXCEPT !.matches = None,
                                             !.dragged = TRUE,
                                             !.center = point]]]_vars

\* Token 8 was picked up at a point that token 7 contains too, on the
\* second tick or later.
C12_Witness ==
    /\ drag_index = 8
    /\ shapes[8].dragged
    /\ shapes[8].center = Point_new(20, 340)
    /\ VennGuess_contains(shapes[7], shapes[8].center)
    /\ ~shapes[7].dragged
    /\ ticks >= 2

\* C13: on a tick with the button down while token i is dragged, the center
\* of token i becomes the pointer and drag_index stays i; drag_index leaves
\* i only on a tick with the button up, and then it becomes unset.
C13_DragFollowsPointer ==
    [][drag_index # NoIndex =>
          /\ input'.is_mouse_pressed =>
               /\ drag_index' = drag_index
               /\ shapes'[drag_index].center = input'.cursor_position
          /\ drag_index' # drag_index =>
               ~input'.is_mouse_pressed /\ drag_index' = NoIndex]_vars

\* Token 0 is dragged over token 8, which lies in the tray and contains the
\* pointer.
C13_Witness ==
    /\ drag_index = 0
    /\ shapes[0].center = Point_new(20, 340)
    /\ input.cursor_position = shapes[0].center
    /\ VennGuess_contains(shapes[8], input.cursor_position)
    /\ ~shapes[8].dragged

\* C14: a tick with the button up while token i is dragged classifies the
\* center the token has before the tick, which is the pointer of the tick
\* before and not the pointer of this tick: the verdict is set exactly when
\* that center is inside a region or inside exactly one slot.  After every
\* tick with the button up drag_index is unset, no token is dragged and both
\* hover flags are false.
C14_ReleaseTick ==
    [][~input'.is_mouse_pressed =>
          /\ drag_index' = NoIndex
          /\ \A k \in Tokens : ~shapes'[k].dragged
          /\ ~left'.answer.hover /\ ~right'.answer.hover
          /\ drag_index # NoIndex =>
               LET c == shapes[drag_index].center IN
               /\ c = input.cursor_position
               /\ input.is_mouse_pressed
               /\ shapes'[drag_index].matches # None
                    <=> \/ InLeft(c) \/ InRight(c)
                        \/ InLeftAnswer(c) # InRightAnswer(c)]_vars

\* On the third tick token 0 was released with the pointer outside every
\* zone, and has a verdict from the left region it had been dragged into.
C14_Witness ==
    /\ ticks = 3
    /\ ~input.is_mouse_pressed
    /\ input.cursor_position = NowherePoint
    /\ drag_index = NoIndex
    /\ shapes[0].center = LeftPoint
    /\ ~shapes[0].dragged
    /\ shapes[0].matches # None

\* C15: after every tick, for either button state and with or without a
\* drag, the selected flag of each region says whether the pointer of the
\* tick is at distance less than radius from the region's center.
C15_SelectedFollowsPointer ==
    LET point == input.cursor_position IN
    /\ left.selected = (DistSq(point, left.center) < left.radius * left.radius)
    /\ right.selected = (DistSq(point, right.center) < right.radius * right.radius)

\* A token is dragged with the pointer inside the left region only: the
\* left region is selected and the right one is not.
C15_Witness ==
    /\ drag_index # NoIndex
    /\ input.cursor_position = LeftPoint
    /\ left.selected
    /\ ~right.selected
    /\ ticks >= 3

\* C16: after every tick a hover flag is true only if a drag is active and
\* the pointer of the tick is strictly inside the slot's rectangle; while a
\* drag is active the button is down and each flag says whether the pointer
\* is inside the slot; with no drag active both flags are false.
C16_HoverOnlyWhileDragging ==
    LET point == input.cursor_position
        inside(a) == /\ point.x > a.center.x - a.width \div 2
                     /\ point.x < a.center.x + a.width \div 2
                     /\ point.y > a.center.y - a.height \div 2
                     /\ point.y < a.center.y + a.height \div 2
    IN  /\ drag_index = NoIndex => ~left.answer.hover /\ ~right.answer.hover
        /\ drag_index # NoIndex =>
             /\ input.is_mouse_pressed
             /\ left.answer.hover = inside(left.answer)
             /\ right.answer.hover = inside(right.answer)

\* A token is dragged over the left slot: its hover flag is set and the
\* right slot's is not.
C16_Witness ==
    /\ drag_index # NoIndex
    /\ input.cursor_position = LeftAnswerPoint
    /\ left.answer.hover
    /\ ~right.answer.hover

\* The button is down over the left slot and no drag is active: no flag.
C16_WitnessIdle ==
    /\ drag_index = NoIndex
    /\ input.is_mouse_pressed
    /\ input.cursor_position = LeftAnswerPoint
    /\ ~left.answer.hover

\* C17: the loaded tray has 9 tokens, one for each pair of a shape and a
\* color, all of size Small, token number i at (20, (i + 1) * 40) in the
\* order shapes outer and colors inner, each with verdict Unset and not
\* dragged; the scene starts with drag_index unset.
C17_LoadedTray ==
    ticks = 0 =>
        /\ DOMAIN shapes = 0 .. 8
        /\ Cardinality({<<shapes[i].target.shape, shapes[i].target.color>> : i \in Tokens}) = 9
        /\ {<<shapes[i].target.shape, shapes[i].target.color>> : i \in Tokens}
             = {"Circle", "Square", "Triangle"} \X {"Yellow", "Blue", "Purple"}
        /\ \A i \in Tokens :
             /\ shapes[i].target.size = "Small"
             /\ shapes[i].target.shape = <<"Circle", "Square", "Triangle">>[(i \div 3) + 1]
             /\ shapes[i].target.color = <<"Yellow", "Blue", "Purple">>[(i % 3) + 1]
             /\ shapes[i].center.x = 20
             /\ shapes[i].center.y = (i + 1) * 40
             /\ shapes[i].matches = None
             /\ ~shapes[i].dragged
        /\ drag_index = NoIndex

\* A freshly loaded puzzle: the last token is the purple triangle at
\* (20, 360).
C17_Witness ==
    /\ ticks = 0
    /\ shapes[8].target = [shape |-> "Triangle", size |-> "Small", color |-> "Purple"]
    /\ shapes[8].center = Point_new(20, 360)
    /\ left.answer.target.shape = "Square"

\* C18: drag_index, when set, is the index of a token of the tray, 0 to 8,
\* so shapes[index] is never read out of range.
C18_DragIndexInRange ==
    /\ DOMAIN shapes = 0 .. 8
    /\ drag_index # NoIndex => drag_index \in 0 .. 8 /\ drag_index \in DOMAIN shapes

\* The last token of the tray is being dragged.
C18_Witness ==
    /\ drag_index = 8
    /\ shapes[8].dragged
    /\ input.is_mouse_pressed

\* C19: a tick changes the center, verdict and dragged flag of at most one
\* token, the one picked up on the tick or the one at drag_index; it never
\* changes the number of tokens, a token's target or radius, or the target,
\* center and size of a region or a slot.
C19_TickFrame ==
    [][/\ DOMAIN shapes' = DOMAIN shapes
       /\ \A i \in Tokens :
            /\ shapes'[i].target = shapes[i].target
            /\ shapes'[i].radius = shapes[i].radius
            /\ shapes'[i] # shapes[i] =>
                 \/ drag_index = i
                 \/ drag_index = NoIndex /\ drag_index' = i
       /\ \A z \in {<<left, left'>>, <<right, right'>>} :
            /\ z[2].center = z[1].center
            /\ z[2].radius = z[1].radius
            /\ z[2].answer.target = z[1].answer.target
            /\ z[2].answer.center = z[1].answer.center
            /\ z[2].answer.width = z[1].answer.width
            /\ z[2].answer.height = z[1].answer.height]_vars

\* Token 0 lies released in the left region while token 1 has just been
\* picked up: the tick that picked it up left token 0 alone.
C19_Witness ==
    /\ drag_index = 1
    /\ shapes[1].dragged
    /\ shapes[0].center = LeftPoint
    /\ ~shapes[0].dragged
    /\ shapes[0].matches # None

\* C20: with the layout built by load (regions of radius 200 centered at
\* (270, 300) and (530, 300), slots 100 by 80 centered at (270, 45) and
\* (530, 45)) no point is inside both slots and no point is inside a slot
\* and a region, so a point is in some region, in the left slot only, in the
\* right slot only or in nothing.
C20_SlotsDisjointFromRegions ==
    /\ left.center = Point_new(270, 300) /\ left.radius = 200
    /\ right.center = Point_new(530, 300) /\ right.radius = 200
    /\ left.answer.center = Point_new(270, 45)
    /\ right.answer.center = Point_new(530, 45)
    /\ \A z \in {left, right} : z.answer.width = 100 /\ z.answer.height = 80
    /\ (probe.kind = "contains" /\ probe.result.circle # None) =>
         LET r == probe.result IN
         /\ ~(r.answer = Some(TRUE) /\ r.right_answer = Some(TRUE))
         /\ (r.answer = Some(TRUE) \/ r.right_answer = Some(TRUE))
              => (r.circle = Some(FALSE) /\ r.right_circle = Some(FALSE))

\* The point of the left slot nearest to its region: inside the slot, one
\* above the slot's lower edge, and outside the region.
C20_Witness ==
    /\ probe.kind = "contains"
    /\ probe.point = Point_new(270, 84)
    /\ probe.result.answer = Some(TRUE)
    /\ probe.result.circle = Some(FALSE)
    /\ probe.result.right_answer = Some(FALSE)

====
